---- MODULE Spec2Model ----
(***************************************************************************)
(* The UI controller of app/static/app.js: the isLoading flag, the four    *)
(* view sections, the research and quota fetches and the progress timers.  *)
(* Every event-handler run and every continuation of an async function     *)
(* after an await is one atomic step (the page is single-threaded).        *)
(***************************************************************************)
EXTENDS FiniteSets, Integers, Sequences, TLC

\* ---------------------------------------------------------------- bounds

\* accepted submits (each issues one research fetch) explored per behaviour
MaxSubmits == 2
\* shake timers (shakeInput) pending at once
MaxShake == 1

\* ------------------------------------------------------------- constants

Views == {"hero", "loading", "error", "report"}

\* showLoading: const steps = ['step1', 'step2', 'step3', 'step4']
Steps == 1..4

\* showLoading: const delays = [0, 3000, 8000, 15000], in units of 1000 ms
delays == <<0, 3, 8, 15>>

\* the check-mark prefix prepended to the label of a done step
DoneMark == "[v] "

\* showError('...', '...') of the catch block: the fixed title and message
NetworkTitle == "network connection failed"
NetworkMessage == "check that the server is running"

\* data.error || '...' and data.message || '': the fallbacks of a rejection
UnknownTitle == "unknown error"
NoMessage == ""

\* the two badges of showReport, textContent and className
CachedBadge == [text |-> "cached", className |-> "report-badge cached"]
FreshBadge == [text |-> "fresh", className |-> "report-badge fresh"]

\* texts a user can leave in #tickerInput, as sequences of characters
Inputs == { <<>>, <<" ">>, <<" ", "A", " ">> }

\* values of an optional JSON field: <<>> when absent, <<v>> when present
Absent == <<>>

\* a parsed JSON body: the fields the script reads, each optional
Body(ticker, name, cached, error, message, remaining, total) ==
    [ticker |-> ticker, name |-> name, cached |-> cached, error |-> error,
     message |-> message, remaining |-> remaining, total |-> total]

NoData == Body(Absent, Absent, Absent, Absent, Absent, Absent, Absent)

\* bodies of a 2xx answer of POST /api/research
ReportData ==
    { Body(<<"AAPL">>, Absent, Absent, Absent, Absent, Absent, Absent),
      Body(<<"AAPL">>, <<"">>, <<TRUE>>, Absent, Absent, Absent, Absent),
      Body(<<"AAPL">>, <<"Apple">>, <<TRUE>>, Absent, Absent, Absent, Absent),
      Body(<<"AAPL">>, <<"Apple">>, <<FALSE>>, Absent, Absent, Absent, Absent) }

\* bodies of a non-2xx answer of POST /api/research
ErrorData ==
    { Body(Absent, Absent, Absent, Absent, Absent, Absent, Absent),
      Body(Absent, Absent, Absent, <<"">>, <<"Try tomorrow">>, Absent, Absent),
      Body(Absent, Absent, Absent, <<"Quota exceeded">>, Absent, Absent, Absent),
      Body(Absent, Absent, Absent, <<"Quota exceeded">>, <<"Try tomorrow">>,
           Absent, Absent) }

\* bodies of a 2xx answer of GET /api/quota
QuotaData ==
    { Body(Absent, Absent, Absent, Absent, Absent, <<r>>, <<2>>) : r \in 0..2 }

\* bodies of a non-2xx answer of GET /api/quota: an error payload
QuotaErrorData ==
    { Body(Absent, Absent, Absent, <<"Quota exceeded">>, Absent, Absent, Absent) }

VARIABLES
    isLoading,      \* let isLoading
    display,        \* style.display of the four sections
    tickerInput,    \* #tickerInput.value
    loadingTicker,  \* #loadingTicker.textContent
    reportTicker,   \* #reportTicker.textContent
    reportName,     \* #reportName.textContent
    reportBadge,    \* #reportBadge.textContent
    errorTitle,     \* #errorTitle.textContent
    errorMessage,   \* #errorMessage.textContent
    quotaText,      \* #quotaValue.textContent
    quotaClass,     \* #quotaValue.classList
    stepClass,      \* classList of #step1..#step4
    stepText,       \* textContent of #step1..#step4, as a sequence of tokens
    boxAnimation,   \* .search-box style.animation
    timers,         \* pending setTimeout callbacks of showLoading
    shakeTimers,    \* pending setTimeout callbacks of shakeInput
    calls,          \* handleSearch invocations suspended at an await
    quotaCalls,     \* updateQuota invocations suspended at an await
    nSubmit,        \* history: accepted submits so far
    researchFor,    \* history: research fetches issued, per accepted submit
    quotaFor,       \* history: quota fetches issued, per trigger (0: page load)
    settled,        \* history: submits whose research call has settled
    nQuota,         \* history: quota fetches issued so far
    lastOp          \* history: the event handled last

vars == <<isLoading, display, tickerInput, loadingTicker, reportTicker,
          reportName, reportBadge, errorTitle, errorMessage, quotaText,
          quotaClass, stepClass, stepText, boxAnimation, timers, shakeTimers,
          calls, quotaCalls, nSubmit, researchFor, quotaFor, settled, nQuota,
          lastOp>>

reportDom == <<reportTicker, reportName, reportBadge>>
errorDom == <<errorTitle, errorMessage>>
quotaDom == <<quotaText, quotaClass>>
stepDom == <<stepClass, stepText>>
dom == <<display, loadingTicker, reportDom, errorDom, quotaDom, stepDom,
         boxAnimation>>
history == <<nSubmit, researchFor, quotaFor, settled, nQuota>>

\* ------------------------------------------------------- pure functions

\* String.prototype.trim on a sequence of characters
RECURSIVE TrimLeft(_)
TrimLeft(s) ==
    IF s # <<>> /\ Head(s) = " " THEN TrimLeft(Tail(s)) ELSE s

RECURSIVE TrimRight(_)
TrimRight(s) ==
    IF s # <<>> /\ s[Len(s)] = " " THEN TrimRight(SubSeq(s, 1, Len(s) - 1)) ELSE s

trim(s) == TrimRight(TrimLeft(s))

\* x || fallback for an optional string field: absent and "" are falsy
OrElse(x, fallback) ==
    IF x = Absent \/ x[1] = "" THEN fallback ELSE x[1]

\* truthiness of an optional boolean field
Truthy(x) == x # Absent /\ x[1]

\* el.textContent = x for an optional string field (undefined sets "")
Text(x) == IF x = Absent THEN "" ELSE x[1]

\* `${n}` for an optional number field
Digits == <<"0", "1", "2", "3", "4", "5", "6", "7", "8", "9">>
Str(x) == IF x = Absent THEN "undefined" ELSE Digits[x[1] + 1]

\* text.replace(DoneMark, ''): drops the first done mark of a label
RECURSIVE replaceMark(_)
replaceMark(text) ==
    IF text = <<>> THEN <<>>
    ELSE IF Head(text) = DoneMark THEN Tail(text)
    ELSE <<Head(text)>> \o replaceMark(Tail(text))

\* the record kept in lastOp: the handler, the call or submit it belongs to,
\* the facts of its input (isLoading and the trimmed text as the handler
\* found them, the timer's step, the response's status and body, the text
\* the handler was given)
Op(name, id, busy, empty, i, ok, data, text) ==
    [op |-> name, id |-> id, busy |-> busy, empty |-> empty, i |-> i,
     ok |-> ok, data |-> data, text |-> text]

Event(name, id) == Op(name, id, FALSE, FALSE, 0, FALSE, NoData, <<>>)

\* --------------------------------------------------------------- Init

\* The page after DOMContentLoaded: the script's globals, the sections as the
\* page shows them at first (search view only) and the first updateQuota()
\* suspended at its fetch.
Init ==
    /\ isLoading = FALSE
    /\ display = [v \in Views |-> IF v = "hero" THEN "block" ELSE "none"]
    /\ tickerInput = <<>>
    /\ loadingTicker = <<>>
    /\ reportTicker = ""
    /\ reportName = ""
    /\ reportBadge = [text |-> "", className |-> "report-badge"]
    /\ errorTitle = ""
    /\ errorMessage = ""
    /\ quotaText = <<"-", "/", "-">>
    /\ quotaClass = {}
    /\ stepClass = [s \in Steps |-> {}]
    /\ stepText = [s \in Steps |-> <<"label">>]
    /\ boxAnimation = ""
    /\ timers = {}
    /\ shakeTimers = 0
    /\ calls = {}
    /\ quotaCalls = {[id |-> 1, by |-> 0, pc |-> "fetch"]}
    /\ nSubmit = 0
    /\ researchFor = [g \in 1..MaxSubmits |-> 0]
    /\ quotaFor = [g \in 0..MaxSubmits |-> IF g = 0 THEN 1 ELSE 0]
    /\ settled = {}
    /\ nQuota = 1
    /\ lastOp = Event("load", 0)

\* ------------------------------------------------------------ the views

\* hideAll() without its first line: the hero section is left as it is
hideAllKeepsHero ==
    [v \in Views |-> IF v = "hero" THEN display[v] ELSE "none"]

\* hideAll(): the display of the four sections after it
hideAll == [v \in Views |-> "none"]

\* showError(title, message) without its call of hideAll()
showErrorOverLoading(title, message) ==
    /\ display' = [display EXCEPT !["error"] = "block"]
    /\ errorTitle' = title
    /\ errorMessage' = message

\* showError(title, message)
showError(title, message) ==
    /\ display' = [hideAll EXCEPT !["error"] = "block"]
    /\ errorTitle' = title
    /\ errorMessage' = message

\* showReport(data) with the badge decided by the presence of data.cached
showReportBadgeWhenPresent(data) ==
    /\ display' = [hideAll EXCEPT !["report"] = "block"]
    /\ reportTicker' = Text(data.ticker)
    /\ reportName' = OrElse(data.name, "")
    /\ reportBadge' = IF data.cached # Absent THEN CachedBadge ELSE FreshBadge

\* showReport(data); the markdown body goes to the external renderer
showReport(data) ==
    /\ display' = [hideAll EXCEPT !["report"] = "block"]
    /\ reportTicker' = Text(data.ticker)
    /\ reportName' = OrElse(data.name, "")
    /\ reportBadge' = IF Truthy(data.cached) THEN CachedBadge ELSE FreshBadge

\* showLoading(ticker) for the submit numbered gen: the loading view, the
\* steps reset, and one timer per step
showLoading(ticker, gen) ==
    /\ display' = [hideAll EXCEPT !["loading"] = "block"]
    /\ loadingTicker' = ticker
    /\ stepClass' = [s \in Steps |-> stepClass[s] \ {"active", "done"}]
    /\ timers' = timers \cup
                   {[gen |-> gen, i |-> i, left |-> delays[i]] : i \in Steps}
    /\ UNCHANGED stepText

\* shakeInput(): the cue and the timer that ends it
shakeInput ==
    /\ shakeTimers < MaxShake
    /\ boxAnimation' = "shake"
    /\ shakeTimers' = shakeTimers + 1

\* ------------------------------------------------------------ the quota

\* updateQuota() up to its first await: fetch('/api/quota') is issued
updateQuota(by) ==
    /\ quotaCalls' = quotaCalls \cup
                       {[id |-> nQuota + 1, by |-> by, pc |-> "fetch"]}
    /\ nQuota' = nQuota + 1
    /\ quotaFor' = [quotaFor EXCEPT ![by] = @ + 1]

\* the same without classList.remove('warning', 'empty')
quotaClassesKeepsOld(old, data) ==
    IF data.remaining = <<0>> THEN old \cup {"empty"}
    ELSE IF data.remaining = <<1>> THEN old \cup {"warning"}
    ELSE old

\* the classes of #quotaValue after classList.remove and the two === tests
quotaClasses(old, data) ==
    LET cleared == old \ {"warning", "empty"}
    IN  IF data.remaining = <<0>> THEN cleared \cup {"empty"}
        ELSE IF data.remaining = <<1>> THEN cleared \cup {"warning"}
        ELSE cleared

\* updateQuota(): await fetch rejects; the catch block logs
QuotaFetchRejects(q) ==
    /\ q \in quotaCalls /\ q.pc = "fetch"
    /\ quotaCalls' = quotaCalls \ {q}
    /\ lastOp' = Event("quotaFetchRejected", q.id)
    /\ UNCHANGED <<isLoading, tickerInput, dom, timers, shakeTimers, calls,
                   nSubmit, researchFor, quotaFor, settled, nQuota>>

\* updateQuota(): await fetch resolves. The function never reads the
\* status of the response, so the call keeps none: the status is drawn with
\* the body, when the body arrives.
QuotaFetchResolves(q) ==
    /\ q \in quotaCalls /\ q.pc = "fetch"
    /\ quotaCalls' = (quotaCalls \ {q}) \cup {[q EXCEPT !.pc = "json"]}
    /\ lastOp' = Event("quotaFetchResolved", q.id)
    /\ UNCHANGED <<isLoading, tickerInput, dom, timers, shakeTimers, calls,
                   nSubmit, researchFor, quotaFor, settled, nQuota>>

\* updateQuota(): await res.json() rejects; the catch block logs
QuotaJsonRejects(q, ok) ==
    /\ q \in quotaCalls /\ q.pc = "json"
    /\ quotaCalls' = quotaCalls \ {q}
    /\ lastOp' = Op("quotaJsonRejected", q.id, FALSE, FALSE, 0, ok, NoData, <<>>)
    /\ UNCHANGED <<isLoading, tickerInput, dom, timers, shakeTimers, calls,
                   nSubmit, researchFor, quotaFor, settled, nQuota>>

\* updateQuota(): what follows const data = await res.json()
updateQuotaBody(data) ==
    /\ quotaText' = <<Str(data.remaining), "/", Str(data.total)>>
    /\ quotaClass' = quotaClasses(quotaClass, data)

\* updateQuota(): await res.json() resolves with the body of a 2xx answer
\* (ok) or of a non-2xx answer
QuotaJsonResolves(q, ok, data) ==
    /\ q \in quotaCalls /\ q.pc = "json"
    /\ data \in (IF ok THEN QuotaData ELSE QuotaErrorData)
    /\ quotaCalls' = quotaCalls \ {q}
    /\ updateQuotaBody(data)
    /\ lastOp' = Op("quotaJsonResolved", q.id, FALSE, FALSE, 0, ok, data, <<>>)
    /\ UNCHANGED <<isLoading, tickerInput, display, loadingTicker, reportDom,
                   errorDom, stepDom, boxAnimation, timers, shakeTimers, calls,
                   nSubmit, researchFor, quotaFor, settled, nQuota>>

\* ----------------------------------------------------------- the search

\* the same with updateQuota() called next to the research fetch, not in the
\* finally block
startSearchRefreshesQuota(ticker) ==
    /\ nSubmit < MaxSubmits
    /\ isLoading' = TRUE
    /\ showLoading(ticker, nSubmit + 1)
    /\ calls' = calls \cup {[id |-> nSubmit + 1, ticker |-> ticker,
                             pc |-> "fetch", ok |-> FALSE]}
    /\ nSubmit' = nSubmit + 1
    /\ researchFor' = [researchFor EXCEPT ![nSubmit + 1] = @ + 1]
    /\ updateQuota(nSubmit + 1)
    /\ UNCHANGED <<reportDom, errorDom, quotaDom, boxAnimation, shakeTimers,
                   settled>>

\* handleSearch() from isLoading = true to the fetch it awaits, for the
\* trimmed text ticker
startSearch(ticker) ==
    /\ nSubmit < MaxSubmits
    /\ isLoading' = TRUE
    /\ showLoading(ticker, nSubmit + 1)
    /\ calls' = calls \cup {[id |-> nSubmit + 1, ticker |-> ticker,
                             pc |-> "fetch", ok |-> FALSE]}
    /\ nSubmit' = nSubmit + 1
    /\ researchFor' = [researchFor EXCEPT ![nSubmit + 1] = @ + 1]
    /\ UNCHANGED <<reportDom, errorDom, quotaDom, boxAnimation, shakeTimers,
                   quotaCalls, quotaFor, settled, nQuota>>

\* handleSearch() without its first line, if (isLoading) return
handleSearchNoGuard(value) ==
    \/ /\ trim(value) = <<>>
       /\ shakeInput
       /\ UNCHANGED <<isLoading, display, loadingTicker, reportDom, errorDom,
                      quotaDom, stepDom, timers, calls, quotaCalls, history>>
    \/ /\ trim(value) # <<>>
       /\ startSearch(trim(value))

\* handleSearch() testing the text as typed, without trim()
handleSearchNoTrim(value) ==
    \/ /\ isLoading
       /\ UNCHANGED <<isLoading, dom, timers, shakeTimers, calls, quotaCalls,
                      history>>
    \/ /\ ~isLoading
       /\ value = <<>>
       /\ shakeInput
       /\ UNCHANGED <<isLoading, display, loadingTicker, reportDom, errorDom,
                      quotaDom, stepDom, timers, calls, quotaCalls, history>>
    \/ /\ ~isLoading
       /\ value # <<>>
       /\ startSearch(value)

\* handleSearch() up to its first await, on the text value of #tickerInput
handleSearch(value) ==
    \/ /\ isLoading
       /\ UNCHANGED <<isLoading, dom, timers, shakeTimers, calls, quotaCalls,
                      history>>
    \/ /\ ~isLoading
       /\ trim(value) = <<>>
       /\ shakeInput
       /\ UNCHANGED <<isLoading, display, loadingTicker, reportDom, errorDom,
                      quotaDom, stepDom, timers, calls, quotaCalls, history>>
    \/ /\ ~isLoading
       /\ trim(value) # <<>>
       /\ startSearch(trim(value))

\* the finally block without isLoading = false
handleSearchFinallyKeepsLoading(c) ==
    /\ updateQuota(c.id)
    /\ calls' = calls \ {c}
    /\ UNCHANGED <<isLoading, nSubmit, researchFor>>

\* handleSearch(): the finally block, after which the invocation c is over
handleSearchFinally(c) ==
    /\ isLoading' = FALSE
    /\ updateQuota(c.id)
    /\ calls' = calls \ {c}
    /\ UNCHANGED <<nSubmit, researchFor>>

\* an empty catch block, then the finally block
handleSearchCatchSilent(c) ==
    /\ UNCHANGED <<display, errorDom, reportDom>>
    /\ handleSearchFinally(c)

\* a catch block that sends the request once more before giving up
handleSearchCatchRetries(c) ==
    IF researchFor[c.id] < 2
    THEN /\ calls' = (calls \ {c}) \cup {[c EXCEPT !.pc = "fetch", !.ok = FALSE]}
         /\ researchFor' = [researchFor EXCEPT ![c.id] = @ + 1]
         /\ UNCHANGED <<isLoading, display, errorDom, reportDom, quotaCalls,
                        nQuota, quotaFor, nSubmit>>
    ELSE /\ showError(NetworkTitle, NetworkMessage)
         /\ UNCHANGED reportDom
         /\ handleSearchFinally(c)

\* handleSearch(): the catch block, then the finally block
handleSearchCatch(c) ==
    /\ showError(NetworkTitle, NetworkMessage)
    /\ UNCHANGED reportDom
    /\ handleSearchFinally(c)

\* the same without the test of res.ok: every parsed body is shown as a report
handleSearchBodyNoStatusTest(c, data) ==
    /\ showReport(data)
    /\ UNCHANGED errorDom
    /\ handleSearchFinally(c)

\* the same without try/finally: the return of a rejection leaves the function
handleSearchBodyReturnSkipsFinally(c, data) ==
    IF ~c.ok
    THEN /\ showError(OrElse(data.error, UnknownTitle),
                      OrElse(data.message, NoMessage))
         /\ calls' = calls \ {c}
         /\ UNCHANGED <<reportDom, isLoading, quotaCalls, nQuota, quotaFor,
                        nSubmit, researchFor>>
    ELSE /\ showReport(data)
         /\ UNCHANGED errorDom
         /\ handleSearchFinally(c)

\* handleSearch(): what follows const data = await res.json()
handleSearchBody(c, data) ==
    /\ IF ~c.ok
       THEN /\ showError(OrElse(data.error, UnknownTitle),
                         OrElse(data.message, NoMessage))
            /\ UNCHANGED reportDom
       ELSE /\ showReport(data)
            /\ UNCHANGED errorDom
    /\ handleSearchFinally(c)

\* the keydown listener: Enter in #tickerInput
Submit ==
    /\ lastOp' = Op("submit", 0, isLoading, trim(tickerInput) = <<>>, 0, FALSE,
                    NoData, tickerInput)
    /\ handleSearch(tickerInput)
    /\ UNCHANGED tickerInput

\* quickSearch(ticker) with its two lines in the other order: the search runs
\* on the text the field held before
quickSearchStaleInput(ticker) ==
    /\ lastOp' = Op("quickSelect", 0, isLoading, trim(ticker) = <<>>, 0, FALSE,
                    NoData, ticker)
    /\ tickerInput' = ticker
    /\ handleSearch(tickerInput)

\* quickSearch(ticker)
quickSearch(ticker) ==
    /\ lastOp' = Op("quickSelect", 0, isLoading, trim(ticker) = <<>>, 0, FALSE,
                    NoData, ticker)
    /\ tickerInput' = ticker
    /\ handleSearch(ticker)

\* the user edits #tickerInput
TypeInput(value) ==
    /\ value # tickerInput
    /\ tickerInput' = value
    /\ lastOp' = Event("type", 0)
    /\ UNCHANGED <<isLoading, dom, timers, shakeTimers, calls, quotaCalls,
                   history>>

\* resetToSearch() that also clears the flag
resetToSearchClearsLoading ==
    /\ display' = [hideAll EXCEPT !["hero"] = "block"]
    /\ tickerInput' = <<>>
    /\ isLoading' = FALSE
    /\ lastOp' = Op("reset", 0, isLoading, FALSE, 0, FALSE, NoData, <<>>)
    /\ UNCHANGED <<loadingTicker, reportDom, errorDom, quotaDom, stepDom,
                   boxAnimation, timers, shakeTimers, calls, quotaCalls,
                   history>>

\* resetToSearch()
resetToSearch ==
    /\ display' = [hideAll EXCEPT !["hero"] = "block"]
    /\ tickerInput' = <<>>
    /\ lastOp' = Op("reset", 0, isLoading, FALSE, 0, FALSE, NoData, <<>>)
    /\ UNCHANGED <<isLoading, loadingTicker, reportDom, errorDom, quotaDom,
                   stepDom, boxAnimation, timers, shakeTimers, calls,
                   quotaCalls, history>>

\* handleSearch(): await fetch rejects (the request could not complete)
ResearchFetchRejects(c) ==
    /\ c \in calls /\ c.pc = "fetch"
    /\ handleSearchCatch(c)
    /\ settled' = settled \cup {c.id}
    /\ lastOp' = Event("fetchRejected", c.id)
    /\ UNCHANGED <<tickerInput, loadingTicker, quotaDom, stepDom, boxAnimation,
                   timers, shakeTimers>>

\* handleSearch(): await fetch resolves with a response of either status
ResearchFetchResolves(c, ok) ==
    /\ c \in calls /\ c.pc = "fetch"
    /\ calls' = (calls \ {c}) \cup {[c EXCEPT !.pc = "json", !.ok = ok]}
    /\ lastOp' = Op("fetchResolved", c.id, FALSE, FALSE, 0, ok, NoData, <<>>)
    /\ UNCHANGED <<isLoading, tickerInput, dom, timers, shakeTimers,
                   quotaCalls, history>>

\* handleSearch(): await res.json() rejects (the body is not JSON)
ResearchJsonRejects(c) ==
    /\ c \in calls /\ c.pc = "json"
    /\ handleSearchCatch(c)
    /\ settled' = settled \cup {c.id}
    /\ lastOp' = Op("jsonRejected", c.id, FALSE, FALSE, 0, c.ok, NoData, <<>>)
    /\ UNCHANGED <<tickerInput, loadingTicker, quotaDom, stepDom, boxAnimation,
                   timers, shakeTimers>>

\* handleSearch(): await res.json() resolves with the parsed body
ResearchJsonResolves(c, data) ==
    /\ c \in calls /\ c.pc = "json"
    /\ data \in (IF c.ok THEN ReportData ELSE ErrorData)
    /\ handleSearchBody(c, data)
    /\ settled' = settled \cup {c.id}
    /\ lastOp' = Op("jsonResolved", c.id, FALSE, FALSE, 0, c.ok, data, <<>>)
    /\ UNCHANGED <<tickerInput, loadingTicker, quotaDom, stepDom, boxAnimation,
                   timers, shakeTimers>>

\* ------------------------------------------------------------ the timers

\* the timer the event loop runs next: due, and first among the due ones
\* (timers of an earlier showLoading were set earlier)
IsNextTimer(t) ==
    /\ t \in timers
    /\ t.left = 0
    /\ \A u \in timers :
         u.left = 0 => (u.gen > t.gen \/ (u.gen = t.gen /\ u.i >= t.i))

\* the callback showLoading gives setTimeout for step t.i
StepTimer(t) ==
    /\ IsNextTimer(t)
    /\ timers' = timers \ {t}
    /\ IF ~isLoading
       THEN UNCHANGED stepDom
       ELSE /\ stepClass' =
                 [s \in Steps |->
                    IF s < t.i THEN (stepClass[s] \ {"active"}) \cup {"done"}
                    ELSE IF s = t.i THEN stepClass[s] \cup {"active"}
                    ELSE stepClass[s]]
            /\ stepText' =
                 [s \in Steps |->
                    IF s < t.i THEN <<DoneMark>> \o replaceMark(stepText[s])
                    ELSE stepText[s]]
    /\ lastOp' = Op("timer", t.gen, isLoading, FALSE, t.i, FALSE, NoData, <<>>)
    /\ UNCHANGED <<isLoading, tickerInput, display, loadingTicker, reportDom,
                   errorDom, quotaDom, boxAnimation, shakeTimers, calls,
                   quotaCalls, history>>

\* the callback shakeInput gives setTimeout (400 ms; it shares no state with
\* the step timers, so its place among them is left open)
ShakeTimer ==
    /\ shakeTimers > 0
    /\ shakeTimers' = shakeTimers - 1
    /\ boxAnimation' = ""
    /\ lastOp' = Event("shakeTimer", 0)
    /\ UNCHANGED <<isLoading, tickerInput, display, loadingTicker, reportDom,
                   errorDom, quotaDom, stepDom, timers, calls, quotaCalls,
                   history>>

\* 1000 ms pass; a due timer runs before more time passes
Tick ==
    /\ timers # {}
    /\ \A t \in timers : t.left > 0
    /\ timers' = {[t EXCEPT !.left = @ - 1] : t \in timers}
    /\ lastOp' = Event("tick", 0)
    /\ UNCHANGED <<isLoading, tickerInput, dom, shakeTimers, calls, quotaCalls,
                   history>>

\* ------------------------------------------------------------------ Next

\* what the user does
User ==
    \/ Submit
    \/ \E t \in Inputs : quickSearch(t)
    \/ \E t \in Inputs : TypeInput(t)
    \/ resetToSearch

\* what the answers to POST /api/research make handleSearch do
ResearchAnswers ==
    \/ \E c \in calls : ResearchFetchRejects(c)
    \/ \E c \in calls, ok \in BOOLEAN : ResearchFetchResolves(c, ok)
    \/ \E c \in calls : ResearchJsonRejects(c)
    \/ \E c \in calls, data \in ReportData \cup ErrorData :
         ResearchJsonResolves(c, data)

\* what the answers to GET /api/quota make updateQuota do
QuotaAnswers ==
    \/ \E q \in quotaCalls : QuotaFetchRejects(q)
    \/ \E q \in quotaCalls : QuotaFetchResolves(q)
    \/ \E q \in quotaCalls, ok \in BOOLEAN : QuotaJsonRejects(q, ok)
    \/ \E q \in quotaCalls, ok \in BOOLEAN,
          data \in QuotaData \cup QuotaErrorData : QuotaJsonResolves(q, ok, data)

\* the timer callbacks that are due
Timers ==
    \/ \E t \in timers : StepTimer(t)
    \/ ShakeTimer

Next == User \/ ResearchAnswers \/ QuotaAnswers \/ Timers \/ Tick

\* the whole page
Spec == Init /\ [][Next]_vars

\* The search flow within the first three seconds of each loading animation,
\* with the quota server silent: no step of QuotaAnswers or Tick writes a
\* variable that a step of User, ResearchAnswers or Timers reads, other than
\* timers, stepClass and stepText.
NextSearch == User \/ ResearchAnswers \/ Timers

SpecSearch == Init /\ [][NextSearch]_vars

\* the research server cannot be reached: every fetch of it rejects
ResearchUnreachable == \E c \in calls : ResearchFetchRejects(c)

\* The quota display, with every research fetch rejected (each one still ends
\* in the finally block and its updateQuota()) and within the first three
\* seconds of each loading animation: the quota fetch of the page load and
\* those of the submits are answered in any order.
NextQuota == User \/ ResearchUnreachable \/ QuotaAnswers \/ Timers

SpecQuota == Init /\ [][NextQuota]_vars

\* The loading animation over its fifteen seconds, with every research fetch
\* rejected (a request settles the same way, in the finally block, whatever
\* its answer) and the quota server silent: the timers of one submit and of
\* the next fire in the order their delays allow.
NextTimed == User \/ ResearchUnreachable \/ Timers \/ Tick

SpecTimed == Init /\ [][NextTimed]_vars

\* The search flow when every network call settles: the server answers each
\* research fetch, or the fetch fails, and the event loop then runs the
\* continuation of handleSearch, so a step of ResearchAnswers that stays
\* possible is taken.
SpecSearchFair == SpecSearch /\ WF_vars(ResearchAnswers)

\* ---------------------------------------------------------------- claims

\* the views that are shown
Visible == {v \in Views : display[v] # "none"}

\* C1: in every reachable state at most one of the four views (hero, loading,
\* report, error) is visible.
C1_AtMostOneViewVisible == Cardinality(Visible) <= 1

\* a second submit has been accepted, its request has been rejected with an
\* error payload and the error view has replaced the loading view
C1_Witness ==
    /\ nSubmit = 2
    /\ lastOp.op = "jsonResolved" /\ ~lastOp.ok
    /\ Visible = {"error"}

\* C2: a submit that finds isLoading true issues no research call, starts no
\* progress timer and leaves isLoading and the visible view as they were.
C2_SubmitWhileInFlightIsNoOp ==
    [][(lastOp'.op = "submit" /\ isLoading) =>
          /\ calls' = calls
          /\ researchFor' = researchFor
          /\ timers' = timers
          /\ isLoading' = isLoading
          /\ display' = display]_vars

\* Enter has been pressed, on a non-empty text, while a request was in flight
C2_Witness ==
    /\ lastOp.op = "submit" /\ lastOp.busy /\ ~lastOp.empty
    /\ calls # {}

\* C3: isLoading is true exactly while a research request is outstanding, and
\* at most one research request is outstanding.
C3_InFlightIffRequestOutstanding ==
    /\ isLoading <=> calls # {}
    /\ Cardinality(calls) <= 1

\* the second request is outstanding, after the first one settled, and the
\* user has gone back to the search view meanwhile
C3_Witness ==
    /\ nSubmit = 2 /\ settled = {1}
    /\ isLoading /\ Cardinality(calls) = 1
    /\ lastOp.op = "reset"

\* the steps in which a research call settles
SettleOps == {"fetchRejected", "jsonRejected", "jsonResolved"}

\* C4: once the research call of an accepted submit has settled (success,
\* rejection or failure), isLoading is false and exactly one quota fetch has
\* been issued for that submit.
C4_SettledSubmitRefreshesQuotaOnce ==
    /\ \A g \in settled : quotaFor[g] = 1
    /\ lastOp.op \in SettleOps => ~isLoading /\ lastOp.id \in settled

\* both submits have settled, the second one by a body that is not JSON
C4_Witness ==
    /\ settled = {1, 2}
    /\ lastOp.op = "jsonRejected" /\ lastOp.id = 2
    /\ quotaFor[1] = 1 /\ quotaFor[2] = 1

\* a text of spaces only (the empty text too)
Blank(text) == \A k \in 1..Len(text) : text[k] = " "

\* C5: a submit of an empty or whitespace-only text issues no network call
\* (research or quota), does not set isLoading (it stays as it was, false when
\* nothing is in flight) and leaves the visible view as it was.
C5_BlankSubmitIssuesNothing ==
    [][(lastOp'.op = "submit" /\ Blank(tickerInput)) =>
          /\ calls' = calls /\ researchFor' = researchFor
          /\ quotaCalls' = quotaCalls /\ quotaFor' = quotaFor
          /\ isLoading' = isLoading
          /\ display' = display]_vars

\* Enter has been pressed on a text of one space with nothing in flight
C5_Witness ==
    /\ lastOp.op = "submit" /\ ~lastOp.busy
    /\ tickerInput = <<" ">>
    /\ ~isLoading /\ boxAnimation = "shake"

\* C6: every accepted submit issues exactly one research fetch, whatever its
\* outcome, and a research fetch is issued only in a step of submit or
\* quickSelect (never by a response, a failure or a timer).
C6_NoRetries ==
    /\ [](\A g \in DOMAIN researchFor :
            researchFor[g] = IF g <= nSubmit THEN 1 ELSE 0)
    /\ [][(\E c \in calls' : c \notin calls /\ c.pc = "fetch") =>
            lastOp'.op \in {"submit", "quickSelect"}]_vars

\* two submits, the first one rejected and the second one failed
C6_Witness ==
    /\ settled = {1, 2}
    /\ errorTitle = NetworkTitle
    /\ lastOp.op = "fetchRejected" /\ lastOp.id = 2
    /\ researchFor[1] = 1 /\ researchFor[2] = 1

\* a rejection has just been handled: a non-2xx answer whose body parsed
Rejected == lastOp.op = "jsonResolved" /\ ~lastOp.ok

\* C7, as claimed: after a non-2xx answer with an error payload the error view
\* shows the payload's error as title and its message as message, and the
\* generic fallback only for a field that is absent.
C7_PayloadShownUnlessAbsent ==
    Rejected =>
        /\ Visible = {"error"}
        /\ errorTitle = IF lastOp.data.error = Absent THEN UnknownTitle
                        ELSE lastOp.data.error[1]
        /\ errorMessage = IF lastOp.data.message = Absent THEN NoMessage
                          ELSE lastOp.data.message[1]

\* C7, amended: the title is the payload's error unless that is absent or the
\* empty string, when it is the generic title; the message is the payload's
\* message, and empty when that is absent.
C7_PayloadShownUnlessAbsentOrEmpty ==
    Rejected =>
        /\ Visible = {"error"}
        /\ errorTitle = IF lastOp.data.error \in {Absent, <<"">>} THEN UnknownTitle
                        ELSE lastOp.data.error[1]
        /\ errorMessage = IF lastOp.data.message = Absent THEN NoMessage
                          ELSE lastOp.data.message[1]

\* the rejection {error: "Quota exceeded", message: "Try tomorrow"} is shown
C7_Witness ==
    /\ Rejected
    /\ lastOp.data.error = <<"Quota exceeded">>
    /\ lastOp.data.message = <<"Try tomorrow">>
    /\ errorTitle = "Quota exceeded" /\ errorMessage = "Try tomorrow"

\* C8: when the research call throws (the fetch rejects, or the body of a
\* response of either status is not JSON) the error view shows the fixed
\* title and message.
C8_ThrownFailureShowsFixedText ==
    lastOp.op \in {"fetchRejected", "jsonRejected"} =>
        /\ Visible = {"error"}
        /\ errorTitle = NetworkTitle
        /\ errorMessage = NetworkMessage

\* the body of a non-2xx answer did not parse, after an earlier rejection had
\* put a payload's text in the error view
C8_Witness ==
    /\ lastOp.op = "jsonRejected" /\ ~lastOp.ok /\ lastOp.id = 2
    /\ Visible = {"error"}
    /\ errorTitle = NetworkTitle

\* a report has just been handled: a 2xx answer whose body parsed
Succeeded == lastOp.op = "jsonResolved" /\ lastOp.ok

\* C9: after a 2xx answer the report view shows the answer's ticker, its name
\* (empty when absent) and the cached badge exactly when its cached field is
\* true, the fresh badge otherwise.
C9_ReportShowsAnswer ==
    Succeeded =>
        /\ Visible = {"report"}
        /\ reportTicker = lastOp.data.ticker[1]
        /\ reportName = IF lastOp.data.name = Absent THEN ""
                        ELSE lastOp.data.name[1]
        /\ reportBadge = IF lastOp.data.cached = <<TRUE>> THEN CachedBadge
                         ELSE FreshBadge

\* a cached report of AAPL is shown
C9_Witness ==
    /\ Succeeded
    /\ lastOp.data.cached = <<TRUE>> /\ lastOp.data.name = <<"Apple">>
    /\ reportTicker = "AAPL" /\ reportBadge.text = "cached"

\* a quota refresh has just succeeded: a 2xx answer whose body parsed
QuotaRefreshed == lastOp.op = "quotaJsonResolved" /\ lastOp.ok

\* C10: after a successful quota refresh #quotaValue is empty exactly when
\* the remaining value of that answer is 0 and warning exactly when it is 1,
\* never both; and in every state the two classes go with the remaining value
\* on display, so that none is left over from an earlier refresh.
C10_QuotaStateFollowsRemaining ==
    /\ QuotaRefreshed =>
         /\ quotaText[1] = Digits[lastOp.data.remaining[1] + 1]
         /\ "empty" \in quotaClass <=> lastOp.data.remaining[1] = 0
         /\ "warning" \in quotaClass <=> lastOp.data.remaining[1] = 1
    /\ "empty" \in quotaClass <=> quotaText[1] = "0"
    /\ "warning" \in quotaClass <=> quotaText[1] = "1"
    /\ ~({"empty", "warning"} \subseteq quotaClass)

\* the answer to the third fetch, remaining 2, has been applied and neither
\* class is set
C10_Witness ==
    /\ QuotaRefreshed /\ lastOp.id = 3
    /\ lastOp.data.remaining = <<2>>
    /\ quotaText = <<"2", "/", "2">>
    /\ quotaClass = {}

\* the steps in which a quota refresh fails: the fetch rejects, the body is
\* not JSON, or the answer is a non-2xx one (whose body parsed)
QuotaFailed(op) ==
    \/ op.op \in {"quotaFetchRejected", "quotaJsonRejected"}
    \/ op.op = "quotaJsonResolved" /\ ~op.ok

\* C11: a quota refresh that fails, in whichever of the three ways, leaves the
\* text and the classes of #quotaValue, the visible view and isLoading as
\* they were.
C11_FailedRefreshChangesNothing ==
    [][QuotaFailed(lastOp') =>
          UNCHANGED <<quotaText, quotaClass, display, isLoading>>]_vars

\* C12: a progress timer that fires after the request of the submit that
\* scheduled it has settled updates no step (no class, no label), also when
\* a later submit is in flight at that moment.
C12_SettledSubmitsTimerUpdatesNothing ==
    [][(lastOp'.op = "timer" /\ lastOp'.id \in settled) =>
          UNCHANGED <<stepClass, stepText>>]_vars

\* C13: the quota fetch of a submit is issued only once the research call of
\* that submit has settled: none has been issued for a submit whose research
\* call is outstanding, and every one issued belongs to a settled submit.
C13_QuotaFetchFollowsResearch ==
    /\ \A c \in calls : quotaFor[c.id] = 0
    /\ \A g \in DOMAIN researchFor : quotaFor[g] > 0 => g \in settled
    /\ \A q \in quotaCalls : q.by # 0 => q.by \in settled

\* the first submit has settled and its quota fetch is out; the research call
\* of the second one is outstanding and has no quota fetch yet
C13_Witness ==
    /\ settled = {1}
    /\ \E c \in calls : c.id = 2 /\ c.pc = "json"
    /\ quotaFor[1] = 1 /\ quotaFor[2] = 0
    /\ \E q \in quotaCalls : q.by = 1

\* C14: resetToSearch shows the hero view alone and empties the input field;
\* it issues no fetch, leaves the outstanding research and quota calls and
\* isLoading as they are, and the request that was pending still ends in the
\* report or the error view.
C14_ResetHasNoNetworkEffect ==
    /\ [][lastOp'.op = "reset" =>
            /\ Visible' = {"hero"}
            /\ tickerInput' = <<>>
            /\ calls' = calls /\ researchFor' = researchFor
            /\ quotaCalls' = quotaCalls /\ quotaFor' = quotaFor
            /\ isLoading' = isLoading]_vars
    /\ [](lastOp.op \in SettleOps => Visible \in {{"error"}, {"report"}})

\* the user has gone back to the search view with a request in flight
C14_Witness ==
    /\ lastOp.op = "reset" /\ lastOp.busy
    /\ isLoading /\ calls # {}
    /\ Visible = {"hero"} /\ tickerInput = <<>>

\* r is the text t without its leading and trailing spaces
IsTrimOf(r, t) ==
    \E i \in 1..(Len(t) + 1), j \in 0..Len(t) :
        /\ r = SubSeq(t, i, j)
        /\ \A k \in 1..(i - 1) : t[k] = " "
        /\ \A k \in (j + 1)..Len(t) : t[k] = " "
        /\ r # <<>> => r[1] # " " /\ r[Len(r)] # " "

\* C15: quickSelect(t) leaves t in the input field; with isLoading false and t
\* not blank it issues exactly one research fetch, whose ticker is t trimmed,
\* and the loading view shows that ticker; with isLoading true it issues none.
C15_QuickSelectIsSubmitOfItsText ==
    [][lastOp'.op = "quickSelect" =>
          /\ tickerInput' = lastOp'.text
          /\ isLoading => calls' = calls /\ researchFor' = researchFor
          /\ (~isLoading /\ ~Blank(lastOp'.text)) =>
                \E c \in calls' :
                    /\ c \notin calls /\ calls' = calls \cup {c}
                    /\ c.pc = "fetch" /\ researchFor'[c.id] = 1
                    /\ IsTrimOf(c.ticker, lastOp'.text)
                    /\ c.ticker # <<>>
                    /\ loadingTicker' = c.ticker
                    /\ Visible' = {"loading"}]_vars

\* quickSelect(" A ") has been accepted over a field that held another text:
\* the request and the loading view carry "A"
C15_Witness ==
    /\ lastOp.op = "quickSelect" /\ ~lastOp.busy
    /\ lastOp.text = <<" ", "A", " ">>
    /\ \E c \in calls : c.ticker = <<"A">> /\ c.pc = "fetch"
    /\ loadingTicker = <<"A">> /\ Visible = {"loading"}

\* C16: when every network call settles, each accepted submit leads to a
\* state in which its request has settled, isLoading is false and the report
\* or the error view has been shown for it; isLoading never stays true, so
\* that handleSearch accepts a text again.
C16_AcceptedSubmitSettles ==
    /\ \A g \in 1..MaxSubmits :
         (nSubmit >= g /\ g \notin settled) ~>
             /\ g \in settled /\ ~isLoading
             /\ lastOp.op \in SettleOps /\ lastOp.id = g
             /\ Visible \in {{"error"}, {"report"}}
    /\ isLoading ~> ~isLoading

\* the second submit has ended in a report, after the first one had settled
C16_Witness ==
    /\ settled = {1, 2} /\ ~isLoading
    /\ lastOp.op = "jsonResolved" /\ lastOp.ok /\ lastOp.id = 2
    /\ Visible = {"report"}

\* C17: at any time at most one progress step carries the class active, and
\* every step before the active one carries done and not active.
Active == {s \in Steps : "active" \in stepClass[s]}

C17_OneActiveStepAfterDoneSteps ==
    /\ Cardinality(Active) <= 1
    /\ \A s \in Active :
         \A j \in 1..(s - 1) :
            "done" \in stepClass[j] /\ "active" \notin stepClass[j]

\* C18: the loading view is visible only while a request is in flight.
C18_LoadingVisibleOnlyInFlight ==
    display["loading"] # "none" => isLoading

\* the loading view of the second submit, after the first one has settled
C18_Witness ==
    /\ Visible = {"loading"} /\ isLoading
    /\ nSubmit = 2 /\ settled = {1}
    /\ \E c \in calls : c.id = 2

\* C19: each time the loading view is shown for a newly accepted submit, the
\* four steps are reset: none active, none done, no label with the done mark.
Accepted(op) ==
    op.op \in {"submit", "quickSelect"} /\ ~op.busy /\ ~op.empty

HasMark(text) == \E k \in 1..Len(text) : text[k] = DoneMark

C19_StepsResetOnAcceptedSubmit ==
    Accepted(lastOp) =>
        /\ Visible = {"loading"}
        /\ \A s \in Steps :
              /\ stepClass[s] \cap {"active", "done"} = {}
              /\ ~HasMark(stepText[s])

\* C20: when the last of several outstanding quota fetches completes right
\* after the response to the most recently issued fetch was displayed, the
\* display stays the response to the most recently issued fetch.
C20_LatestQuotaFetchWins ==
    [][(/\ lastOp.op = "quotaJsonResolved" /\ lastOp.id = nQuota
        /\ lastOp'.op \in {"quotaFetchRejected", "quotaJsonRejected",
                           "quotaJsonResolved"}
        /\ quotaCalls # {} /\ quotaCalls' = {})
          => UNCHANGED <<quotaText, quotaClass>>]_vars

====
